---- MODULE Spec2Model ----
(***************************************************************************)
(* Model of upload.py: the heading-based segmenter (parse_chapters) and    *)
(* the sequential browser walk of main (login, then per chapter: open the  *)
(* new-chapter form, fill, post, wait for the confirmation marker).        *)
(*                                                                         *)
(* A string is a sequence of tokens (one-character strings, markup tokens  *)
(* such as "<p>", and literals of the program such as "Chapter 1").        *)
(* A parsed document (the soup) records whether it has a head (with a      *)
(* title) and a body element, and the nodes below <body> in document order *)
(* (pre-order), each with its nesting depth; only div elements have child  *)
(* nodes, and the strings inside a heading or a paragraph are kept in the  *)
(* node's strs field.                                                      *)
(***************************************************************************)
EXTENDS Integers, Sequences, FiniteSets, TLC

VARIABLES doc, chapters, args, environ, pc, i, driver, page,
          title_field, content_field, exc, trace, exit_status

vars == <<doc, chapters, args, environ, pc, i, driver, page,
          title_field, content_field, exc, trace, exit_status>>

(***************************************************************************)
(* Bounds of the model.                                                    *)
(***************************************************************************)
MaxNodes == 4

MaxStart == 3

(***************************************************************************)
(* Strings.                                                                *)
(***************************************************************************)
Whitespace == {" ", "\n"}

RECURSIVE Concat(_)
Concat(ss) ==
    IF ss = <<>> THEN <<>> ELSE Head(ss) \o Concat(Tail(ss))

RECURSIVE Join(_, _)
Join(sep, ss) ==
    IF ss = <<>> THEN <<>>
    ELSE IF Len(ss) = 1 THEN ss[1]
    ELSE ss[1] \o sep \o Join(sep, Tail(ss))

RECURSIVE LStrip(_)
LStrip(s) ==
    IF s # <<>> /\ Head(s) \in Whitespace THEN LStrip(Tail(s)) ELSE s

RECURSIVE RStrip(_)
RStrip(s) ==
    IF s # <<>> /\ s[Len(s)] \in Whitespace
    THEN RStrip(SubSeq(s, 1, Len(s) - 1))
    ELSE s

Strip(s) == RStrip(LStrip(s))

Chars(s) == {s[k] : k \in 1..Len(s)}

(***************************************************************************)
(* Documents.  The text of the node at position k is built from Letter[k], *)
(* so that every text in a document is distinct and a piece of text found  *)
(* in a chapter's content names the node it came from.                     *)
(***************************************************************************)
Letter == <<"a", "b", "c", "d", "e", "f", "g", "h">>

HeadingStyles == {"plain", "padded", "split", "blank"}

\* the strings inside a heading at position k, per style:
\*   plain   <h1>a</h1>        padded  <h1> a </h1>
\*   split   <h1>a <b>a</b></h1>   blank   <h1> </h1>
HeadingStrs(k, style) ==
    CASE style = "plain"  -> << <<Letter[k]>> >>
      [] style = "padded" -> << <<" ", Letter[k], " ">> >>
      [] style = "split"  -> << <<Letter[k], " ">>, <<Letter[k]>> >>
      [] style = "blank"  -> << <<" ">> >>

\* the kinds of node of the bounded documents: h1 headings of every style,
\* plain h2 headings, paragraphs, bare strings and div containers
Kinds ==
    ({"h1"} \X HeadingStyles)
    \cup {<<"h2", "plain">>, <<"p", "plain">>, <<"#text", "plain">>, <<"div", "none">>}

Strs(k, kind) ==
    IF kind[1] \in {"h1", "h2"} THEN HeadingStrs(k, kind[2])
    ELSE IF kind[1] = "div" THEN <<>>
    ELSE << <<Letter[k]>> >>

\* the nesting depths of n nodes in document order: a node is at most one
\* level below the node before it
RECURSIVE DepthSeqs(_)
DepthSeqs(n) ==
    IF n = 0 THEN {<<>>}
    ELSE IF n = 1 THEN {<<0>>}
    ELSE UNION {{Append(ds, dp) : dp \in 0..(ds[n - 1] + 1)} : ds \in DepthSeqs(n - 1)}

\* only a div has child nodes
Compatible(ks, ds) ==
    \A k \in 1..(Len(ds) - 1) : ds[k + 1] = ds[k] + 1 => ks[k][1] = "div"

MkNodes(ks, ds) ==
    [k \in 1..Len(ds) |-> [name |-> ks[k][1], depth |-> ds[k], strs |-> Strs(k, ks[k])]]

\* the parser creates the body element as soon as there is content for it
MkDoc(head, body, ks, ds) ==
    [head |-> head, body |-> body \/ Len(ds) > 0, nodes |-> MkNodes(ks, ds)]

(***************************************************************************)
(* The document tree (what BeautifulSoup exposes of it).                   *)
(***************************************************************************)
IsTag(nd) == nd.name # "#text"

\* re.compile(r"^h[12]$", re.I) on a tag name (the parser lower-cases names)
IsHeadingName(name) == name \in {"h1", "h2"}

Indices(d) == [k \in 1..Len(d) |-> k]

\* last position of the subtree rooted at position k
SubtreeEnd(d, k) ==
    CHOOSE e \in k..Len(d) :
        /\ \A m \in (k + 1)..e : d[m].depth > d[k].depth
        /\ e = Len(d) \/ d[e + 1].depth <= d[k].depth

\* positions of the children of the node at k (all nodes, strings included)
Children(d, k) ==
    SelectSeq(Indices(d),
              LAMBDA m : m > k /\ m <= SubtreeEnd(d, k) /\ d[m].depth = d[k].depth + 1)

\* BodyChildren keeping the Tag objects only
BodyChildrenTags(d) == SelectSeq(Indices(d), LAMBDA m : d[m].depth = 0 /\ IsTag(d[m]))

\* body.children: the nodes directly below <body>
BodyChildren(d) == SelectSeq(Indices(d), LAMBDA m : d[m].depth = 0)

\* PageElement.next_siblings: every later node with the same parent
NextSiblings(d, k) ==
    SelectSeq(Indices(d),
              LAMBDA m : /\ m > k
                         /\ d[m].depth = d[k].depth
                         /\ \A x \in k..m : d[x].depth >= d[k].depth)

\* find_next_siblings() without arguments keeps the Tag objects only
find_next_siblings(d, k) == SelectSeq(NextSiblings(d, k), LAMBDA m : IsTag(d[m]))

\* soup.find_all(re.compile(r"^h[12]$", re.I)): document order
find_all(d) == SelectSeq(Indices(d), LAMBDA m : IsTag(d[m]) /\ IsHeadingName(d[m].name))

\* the markup inside a heading or paragraph: the first string is bare text,
\* each later string sits in an inline <b> element
RECURSIVE InlineMarkup(_)
InlineMarkup(ss) ==
    IF ss = <<>> THEN <<>>
    ELSE <<"<b>">> \o Head(ss) \o <<"</b>">> \o InlineMarkup(Tail(ss))

InnerMarkup(nd) ==
    IF nd.strs = <<>> THEN <<>> ELSE Head(nd.strs) \o InlineMarkup(Tail(nd.strs))

OpenTag(name) ==
    CASE name = "h1" -> "<h1>" [] name = "h2" -> "<h2>"
      [] name = "p" -> "<p>"   [] name = "div" -> "<div>"

CloseTag(name) ==
    CASE name = "h1" -> "</h1>" [] name = "h2" -> "</h2>"
      [] name = "p" -> "</p>"   [] name = "div" -> "</div>"

\* str(node): a string node is its text, a tag is its markup
RECURSIVE str(_, _)
str(d, k) ==
    IF ~IsTag(d[k]) THEN Concat(d[k].strs)
    ELSE LET kids == Children(d, k)
         IN  <<OpenTag(d[k].name)>>
             \o InnerMarkup(d[k])
             \o Concat([x \in 1..Len(kids) |-> str(d, kids[x])])
             \o <<CloseTag(d[k].name)>>

\* Tag.get_text(strip=True): every string stripped, empty ones dropped,
\* joined without a separator
get_text_strip(nd) ==
    LET stripped == [x \in 1..Len(nd.strs) |-> Strip(nd.strs[x])]
    IN  Concat(SelectSeq(stripped, LAMBDA s : s # <<>>))

\* CollectUntilHeading with continue in place of the break of line 66
RECURSIVE CollectSkippingHeadings(_, _)
CollectSkippingHeadings(d, sibs) ==
    IF sibs = <<>> THEN <<>>
    ELSE IF IsHeadingName(d[Head(sibs)].name) THEN CollectSkippingHeadings(d, Tail(sibs))
    ELSE <<str(d, Head(sibs))>> \o CollectSkippingHeadings(d, Tail(sibs))

\* the loop of lines 64-67: siblings up to the first heading
RECURSIVE CollectUntilHeading(_, _)
CollectUntilHeading(d, sibs) ==
    IF sibs = <<>> THEN <<>>
    ELSE IF IsHeadingName(d[Head(sibs)].name) THEN <<>>
    ELSE <<str(d, Head(sibs))>> \o CollectUntilHeading(d, Tail(sibs))

\* str(child) of the children of a soup without body: nothing, or the html
\* element with its head
SoupChildrenMarkup(s) ==
    IF s.head
    THEN <<"<html>", "<head>", "<title>", "t", "</title>", "</head>", "</html>">>
    ELSE <<>>

\* lines 53-56: body = soup.find("body") or soup, then the join of its children
FallbackContent(s) ==
    IF s.body
    THEN LET kids == BodyChildren(s.nodes)
         IN  Concat([x \in 1..Len(kids) |-> str(s.nodes, kids[x])])
    ELSE SoupChildrenMarkup(s)

parse_chapters(s) ==
    LET d == s.nodes
        headings == find_all(d)
    IN  IF headings = <<>>
        THEN << [title |-> <<"Chapter 1">>, content |-> FallbackContent(s)] >>
        ELSE [x \in 1..Len(headings) |->
                [title |-> get_text_strip(d[headings[x]]),
                 content |-> Join(<<"\n">>,
                                  CollectUntilHeading(d, find_next_siblings(d, headings[x])))]]

(***************************************************************************)
(* The run of main.                                                        *)
(***************************************************************************)
\* the documents of the upload runs: flat documents of plain h1 headings,
\* each followed by at most one paragraph
RunKinds == {<<"h1", "plain">>, <<"p", "plain">>}

RunShape(ks) ==
    \A k \in 1..Len(ks) : ks[k][1] = "p" => (k > 1 /\ ks[k - 1][1] = "h1")

Args ==
    [html_exists : BOOLEAN, list_chapters : BOOLEAN, headless : BOOLEAN,
     dry_run : BOOLEAN, start : 0..MaxStart]

\* os.getenv: "unset" stands for None
Environs ==
    [AO3_USERNAME : {"unset", "", "user"}, AO3_PASSWORD : {"unset", "", "secret"}]

NoArgs ==
    [html_exists |-> TRUE, list_chapters |-> TRUE, headless |-> FALSE,
     dry_run |-> FALSE, start |-> 0]

NoEnviron == [AO3_USERNAME |-> "unset", AO3_PASSWORD |-> "unset"]

Ev(e, n) == [ev |-> e, i |-> n]

Emit(e, n) == trace' = Append(trace, Ev(e, n))

Emit2(e1, e2, n) == trace' = trace \o <<Ev(e1, n), Ev(e2, n)>>

Init ==
    /\ \E n \in 0..MaxNodes : \E ks \in [1..n -> RunKinds] :
          /\ RunShape(ks)
          /\ doc = MkDoc(TRUE, TRUE, ks, [k \in 1..n |-> 0])
    /\ args \in Args
    /\ environ \in Environs
    /\ chapters = <<>>
    /\ pc = "check_file"
    /\ i = 0
    /\ driver = "none"
    /\ page = "none"
    /\ title_field = <<>>
    /\ content_field = <<>>
    /\ exc = "none"
    /\ trace = <<>>
    /\ exit_status = -1

\* lines 253-256
CheckFile ==
    /\ pc = "check_file"
    /\ IF args.html_exists
       THEN /\ pc' = "parse"
            /\ UNCHANGED <<trace, exit_status>>
       ELSE /\ Emit("print_error_file_not_found", -1)
            /\ exit_status' = 1
            /\ pc' = "exited"
    /\ UNCHANGED <<doc, chapters, args, environ, i, driver, page,
                   title_field, content_field, exc>>

\* lines 258-261
Parse ==
    /\ pc = "parse"
    /\ chapters' = parse_chapters(doc)
    /\ Emit("print_found", -1)
    /\ pc' = "list_chapters"
    /\ UNCHANGED <<doc, args, environ, i, driver, page,
                   title_field, content_field, exc, exit_status>>

\* lines 263-267
ListChapters ==
    /\ pc = "list_chapters"
    /\ IF args.list_chapters
       THEN /\ trace' = trace \o [k \in 1..Len(chapters) |-> Ev("print_list", k - 1)]
            /\ exit_status' = 0
            /\ pc' = "exited"
       ELSE /\ pc' = "credentials"
            /\ UNCHANGED <<trace, exit_status>>
    /\ UNCHANGED <<doc, chapters, args, environ, i, driver, page,
                   title_field, content_field, exc>>

\* "not username": None and the empty string are both false
Falsy(v) == v \in {"unset", ""}

\* CheckCredentials failing only when both variables are missing
CheckCredentialsBothMissing ==
    /\ pc = "credentials"
    /\ IF Falsy(environ.AO3_USERNAME) /\ Falsy(environ.AO3_PASSWORD)
       THEN /\ Emit("print_error_credentials", -1)
            /\ exit_status' = 1
            /\ pc' = "exited"
       ELSE /\ pc' = "create_driver"
            /\ UNCHANGED <<trace, exit_status>>
    /\ UNCHANGED <<doc, chapters, args, environ, i, driver, page,
                   title_field, content_field, exc>>

\* lines 269-274
CheckCredentials ==
    /\ pc = "credentials"
    /\ IF Falsy(environ.AO3_USERNAME) \/ Falsy(environ.AO3_PASSWORD)
       THEN /\ Emit("print_error_credentials", -1)
            /\ exit_status' = 1
            /\ pc' = "exited"
       ELSE /\ pc' = "create_driver"
            /\ UNCHANGED <<trace, exit_status>>
    /\ UNCHANGED <<doc, chapters, args, environ, i, driver, page,
                   title_field, content_field, exc>>

\* line 277: create_driver is called outside the try block of main, so an
\* exception of webdriver.Chrome ends the process with a traceback
CreateDriver ==
    /\ pc = "create_driver"
    /\ \E started \in BOOLEAN :
          IF started
          THEN /\ driver' = "open"
               /\ page' = "blank"
               /\ pc' = "login"
               /\ UNCHANGED <<exc, trace, exit_status>>
          ELSE /\ exc' = "WebDriverException"
               /\ Emit("traceback", -1)
               /\ exit_status' = 1
               /\ pc' = "exited"
               /\ UNCHANGED <<driver, page>>
    /\ UNCHANGED <<doc, chapters, args, environ, i, title_field, content_field>>

\* an exception leaves the try block of main for its handler; the trace
\* records it after the events evs of the step that raised it
Raise(evs, e, n) ==
    /\ trace' = trace \o evs \o <<Ev(e, n)>>
    /\ exc' = e
    /\ pc' = "except"

\* login, lines 123-130: load the login page and wait for its form
LoginOpen ==
    /\ pc = "login"
    /\ \E found \in BOOLEAN :
          IF found
          THEN /\ page' = "login"
               /\ Emit("get_login", -1)
               /\ pc' = "login_submit"
               /\ UNCHANGED exc
          ELSE /\ page' = "other"
               /\ Raise(<<Ev("get_login", -1)>>, "TimeoutException", -1)
    /\ UNCHANGED <<doc, chapters, args, environ, i, driver,
                   title_field, content_field, exit_status>>

\* login, lines 131-141: fill both fields and click the submit control;
\* find_element raises when the password field or the control is missing
LoginSubmit ==
    /\ pc = "login_submit"
    /\ \E present \in BOOLEAN :
          IF present
          THEN /\ Emit("click_login", -1)
               /\ pc' = "login_wait"
               /\ UNCHANGED exc
          ELSE Raise(<<>>, "NoSuchElementException", -1)
    /\ UNCHANGED <<doc, chapters, args, environ, i, driver, page,
                   title_field, content_field, exit_status>>

\* LoginWait with the test of line 149 negated
LoginWaitSwapsMessages ==
    /\ pc = "login_wait"
    /\ \E outcome \in {"marker", "invalid_phrase", "no_phrase"} :
          CASE outcome = "marker" ->
                 /\ page' = "dashboard"
                 /\ Emit("print_login_successful", -1)
                 /\ pc' = "loop"
                 /\ UNCHANGED exc
            [] outcome = "invalid_phrase" ->
                 /\ page' = "login_invalid"
                 /\ Raise(<<>>, "RuntimeError_unexpected_page_state", -1)
            [] outcome = "no_phrase" ->
                 /\ page' = "other"
                 /\ Raise(<<>>, "RuntimeError_invalid_credentials", -1)
    /\ UNCHANGED <<doc, chapters, args, environ, i, driver,
                   title_field, content_field, exit_status>>

\* LoginWait with the timeout reported but not raised
LoginWaitSwallows ==
    /\ pc = "login_wait"
    /\ \E outcome \in {"marker", "invalid_phrase", "no_phrase"} :
          CASE outcome = "marker" ->
                 /\ page' = "dashboard"
                 /\ Emit("print_login_successful", -1)
            [] outcome = "invalid_phrase" ->
                 /\ page' = "login_invalid"
                 /\ Emit("RuntimeError_invalid_credentials", -1)
            [] outcome = "no_phrase" ->
                 /\ page' = "other"
                 /\ Emit("RuntimeError_unexpected_page_state", -1)
    /\ pc' = "loop"
    /\ UNCHANGED <<doc, chapters, args, environ, i, driver,
                   title_field, content_field, exc, exit_status>>

\* login, lines 143-151: wait for the post-login marker
LoginWait ==
    /\ pc = "login_wait"
    /\ \E outcome \in {"marker", "invalid_phrase", "no_phrase"} :
          CASE outcome = "marker" ->
                 /\ page' = "dashboard"
                 /\ Emit("print_login_successful", -1)
                 /\ pc' = "loop"
                 /\ UNCHANGED exc
            [] outcome = "invalid_phrase" ->
                 /\ page' = "login_invalid"
                 /\ Raise(<<>>, "RuntimeError_invalid_credentials", -1)
            [] outcome = "no_phrase" ->
                 /\ page' = "other"
                 /\ Raise(<<>>, "RuntimeError_unexpected_page_state", -1)
    /\ UNCHANGED <<doc, chapters, args, environ, i, driver,
                   title_field, content_field, exit_status>>

\* LoopHead leaving the loop one chapter early
LoopHeadStopsEarly ==
    /\ pc = "loop"
    /\ IF i >= Len(chapters) - 1
       THEN /\ pc' = "print_done"
            /\ UNCHANGED <<i, trace>>
       ELSE IF i < args.start
       THEN /\ Emit("print_skipping", i)
            /\ i' = i + 1
            /\ UNCHANGED pc
       ELSE /\ Emit("print_uploading", i)
            /\ pc' = "navigate"
            /\ UNCHANGED i
    /\ UNCHANGED <<doc, chapters, args, environ, driver, page,
                   title_field, content_field, exc, exit_status>>

\* LoopHead with the comparison of line 223 off by one
LoopHeadOffByOne ==
    /\ pc = "loop"
    /\ IF i >= Len(chapters)
       THEN /\ pc' = "print_done"
            /\ UNCHANGED <<i, trace>>
       ELSE IF i <= args.start
       THEN /\ Emit("print_skipping", i)
            /\ i' = i + 1
            /\ UNCHANGED pc
       ELSE /\ Emit("print_uploading", i)
            /\ pc' = "navigate"
            /\ UNCHANGED i
    /\ UNCHANGED <<doc, chapters, args, environ, driver, page,
                   title_field, content_field, exc, exit_status>>

\* upload_all_chapters, lines 221-227: the loop head
LoopHead ==
    /\ pc = "loop"
    /\ IF i >= Len(chapters)
       THEN /\ pc' = "print_done"
            /\ UNCHANGED <<i, trace>>
       ELSE IF i < args.start
       THEN /\ Emit("print_skipping", i)
            /\ i' = i + 1
            /\ UNCHANGED pc
       ELSE /\ Emit("print_uploading", i)
            /\ pc' = "navigate"
            /\ UNCHANGED i
    /\ UNCHANGED <<doc, chapters, args, environ, driver, page,
                   title_field, content_field, exc, exit_status>>

\* Navigate with the timeout of the form isolated per chapter: the run goes
\* on with the next chapter
NavigateIsolated ==
    /\ pc = "navigate"
    /\ title_field' = <<>>
    /\ content_field' = <<>>
    /\ \E loaded \in BOOLEAN :
          IF loaded
          THEN /\ page' = "new_chapter"
               /\ Emit("get_new_chapter", i)
               /\ pc' = "fill_title"
          ELSE /\ page' = "other"
               /\ trace' = trace \o <<Ev("get_new_chapter", i), Ev("TimeoutException", i)>>
               /\ pc' = "after_chapter"
    /\ UNCHANGED <<doc, chapters, args, environ, i, driver, exc, exit_status>>

\* navigate_to_add_chapter, lines 154-161
Navigate ==
    /\ pc = "navigate"
    /\ title_field' = <<>>
    /\ content_field' = <<>>
    /\ \E loaded \in BOOLEAN :
          IF loaded
          THEN /\ page' = "new_chapter"
               /\ Emit("get_new_chapter", i)
               /\ pc' = "fill_title"
               /\ UNCHANGED exc
          ELSE /\ page' = "other"
               /\ Raise(<<Ev("get_new_chapter", i)>>, "TimeoutException", i)
    /\ UNCHANGED <<doc, chapters, args, environ, i, driver, exit_status>>

\* upload_chapter, lines 177-180: find_element raises when the field is
\* missing, clear or send_keys when the text cannot be typed
FillTitle ==
    /\ pc = "fill_title"
    /\ \E outcome \in {"typed", "missing", "keys_fail"} :
          CASE outcome = "typed" ->
                 /\ title_field' = chapters[i + 1].title
                 /\ Emit("fill_title", i)
                 /\ pc' = "fill_content"
                 /\ UNCHANGED exc
            [] outcome = "missing" ->
                 /\ Raise(<<>>, "NoSuchElementException", i)
                 /\ UNCHANGED title_field
            [] outcome = "keys_fail" ->
                 /\ Raise(<<>>, "WebDriverException_send_keys", i)
                 /\ UNCHANGED title_field
    /\ UNCHANGED <<doc, chapters, args, environ, i, driver, page,
                   content_field, exit_status>>

\* FillContent typing the content of the first chapter into every form
FillContentOfFirstChapter ==
    /\ pc = "fill_content"
    /\ \E outcome \in {"typed", "missing", "keys_fail"} :
          CASE outcome = "typed" ->
                 /\ content_field' = chapters[1].content
                 /\ Emit("fill_content", i)
                 /\ pc' = "submit"
                 /\ UNCHANGED exc
            [] outcome = "missing" ->
                 /\ Raise(<<>>, "NoSuchElementException", i)
                 /\ UNCHANGED content_field
            [] outcome = "keys_fail" ->
                 /\ Raise(<<>>, "WebDriverException_send_keys", i)
                 /\ UNCHANGED content_field
    /\ UNCHANGED <<doc, chapters, args, environ, i, driver, page,
                   title_field, exit_status>>

\* upload_chapter, lines 182-186: as for the title, with no fallback to
\* safe_send_keys (lines 107-114), which only login calls
FillContent ==
    /\ pc = "fill_content"
    /\ \E outcome \in {"typed", "missing", "keys_fail"} :
          CASE outcome = "typed" ->
                 /\ content_field' = chapters[i + 1].content
                 /\ Emit("fill_content", i)
                 /\ pc' = "submit"
                 /\ UNCHANGED exc
            [] outcome = "missing" ->
                 /\ Raise(<<>>, "NoSuchElementException", i)
                 /\ UNCHANGED content_field
            [] outcome = "keys_fail" ->
                 /\ Raise(<<>>, "WebDriverException_send_keys", i)
                 /\ UNCHANGED content_field
    /\ UNCHANGED <<doc, chapters, args, environ, i, driver, page,
                   title_field, exit_status>>

\* DryRunReturn without the return of line 190: the Post button is clicked
DryRunFallsThrough ==
    /\ pc = "submit"
    /\ args.dry_run
    /\ Emit2("print_would_submit", "click_post", i)
    /\ pc' = "confirm"
    /\ UNCHANGED <<doc, chapters, args, environ, i, driver, page,
                   title_field, content_field, exc, exit_status>>

\* upload_chapter, lines 188-190
DryRunReturn ==
    /\ pc = "submit"
    /\ args.dry_run
    /\ Emit("print_would_submit", i)
    /\ pc' = "after_chapter"
    /\ UNCHANGED <<doc, chapters, args, environ, i, driver, page,
                   title_field, content_field, exc, exit_status>>

\* upload_chapter, lines 192-194
Post ==
    /\ pc = "submit"
    /\ ~args.dry_run
    /\ \E ok \in BOOLEAN :
          IF ok
          THEN /\ Emit("click_post", i)
               /\ pc' = "confirm"
               /\ UNCHANGED exc
          ELSE Raise(<<>>, "WebDriverException_click", i)
    /\ UNCHANGED <<doc, chapters, args, environ, i, driver, page,
                   title_field, content_field, exit_status>>

\* Confirm with the handler of line 200 re-raising the timeout
ConfirmReraises ==
    /\ pc = "confirm"
    /\ \E marker \in BOOLEAN :
          IF marker
          THEN /\ page' = "chapter"
               /\ Emit2("wait_confirm", "print_posted", i)
               /\ pc' = "after_chapter"
               /\ UNCHANGED exc
          ELSE /\ page' = "other"
               /\ Raise(<<Ev("wait_confirm", i), Ev("print_failed_to_confirm", i)>>,
                        "TimeoutException", i)
    /\ UNCHANGED <<doc, chapters, args, environ, i, driver,
                   title_field, content_field, exit_status>>

\* upload_chapter, lines 196-201
Confirm ==
    /\ pc = "confirm"
    /\ \E marker \in BOOLEAN :
          IF marker
          THEN /\ page' = "chapter"
               /\ Emit2("wait_confirm", "print_posted", i)
          ELSE /\ page' = "other"
               /\ Emit2("wait_confirm", "print_failed_to_confirm", i)
    /\ pc' = "after_chapter"
    /\ UNCHANGED <<doc, chapters, args, environ, i, driver,
                   title_field, content_field, exc, exit_status>>

\* AfterChapter with the pause of line 231 taken after the last chapter too
AfterChapterAlwaysPauses ==
    /\ pc = "after_chapter"
    /\ IF ~args.dry_run /\ i < Len(chapters)
       THEN Emit("sleep", i)
       ELSE UNCHANGED trace
    /\ i' = i + 1
    /\ pc' = "loop"
    /\ UNCHANGED <<doc, chapters, args, environ, driver, page,
                   title_field, content_field, exc, exit_status>>

\* upload_all_chapters, lines 230-232, and the step to the next index
AfterChapter ==
    /\ pc = "after_chapter"
    /\ IF ~args.dry_run /\ i < Len(chapters) - 1
       THEN Emit("sleep", i)
       ELSE UNCHANGED trace
    /\ i' = i + 1
    /\ pc' = "loop"
    /\ UNCHANGED <<doc, chapters, args, environ, driver, page,
                   title_field, content_field, exc, exit_status>>

\* main, line 281
PrintDone ==
    /\ pc = "print_done"
    /\ Emit("print_done", -1)
    /\ pc' = "finally"
    /\ UNCHANGED <<doc, chapters, args, environ, i, driver, page,
                   title_field, content_field, exc, exit_status>>

\* Except ending the process at once, without the finally block
ExceptSkipsFinally ==
    /\ pc = "except"
    /\ Emit("print_error", -1)
    /\ exc' = "SystemExit"
    /\ exit_status' = 1
    /\ pc' = "exited"
    /\ UNCHANGED <<doc, chapters, args, environ, i, driver, page,
                   title_field, content_field>>

\* Except without the sys.exit(1) of line 284
ExceptWithoutExit ==
    /\ pc = "except"
    /\ Emit("print_error", -1)
    /\ exc' = "none"
    /\ pc' = "finally"
    /\ UNCHANGED <<doc, chapters, args, environ, i, driver, page,
                   title_field, content_field, exit_status>>

\* main, lines 282-284
Except ==
    /\ pc = "except"
    /\ Emit("print_error", -1)
    /\ exc' = "SystemExit"
    /\ pc' = "finally"
    /\ UNCHANGED <<doc, chapters, args, environ, i, driver, page,
                   title_field, content_field, exit_status>>

\* Finally with a non-zero exit status after an unconfirmed chapter
FinallyCountsUnconfirmed ==
    /\ pc = "finally"
    /\ IF args.headless
       THEN /\ driver' = "quit"
            /\ Emit("quit", -1)
       ELSE /\ Emit("print_left_open", -1)
            /\ UNCHANGED driver
    /\ exit_status' =
          IF exc = "SystemExit"
                \/ \E p \in 1..Len(trace) : trace[p].ev = "print_failed_to_confirm"
          THEN 1 ELSE 0
    /\ pc' = "exited"
    /\ UNCHANGED <<doc, chapters, args, environ, i, page,
                   title_field, content_field, exc>>

\* main, lines 285-289, and the end of the process
Finally ==
    /\ pc = "finally"
    /\ IF args.headless
       THEN /\ driver' = "quit"
            /\ Emit("quit", -1)
       ELSE /\ Emit("print_left_open", -1)
            /\ UNCHANGED driver
    /\ exit_status' = IF exc = "SystemExit" THEN 1 ELSE 0
    /\ pc' = "exited"
    /\ UNCHANGED <<doc, chapters, args, environ, i, page,
                   title_field, content_field, exc>>

Next ==
    \/ CheckFile \/ Parse \/ ListChapters \/ CheckCredentials \/ CreateDriver
    \/ LoginOpen \/ LoginSubmit \/ LoginWait
    \/ LoopHead \/ Navigate \/ FillTitle \/ FillContent
    \/ DryRunReturn \/ Post \/ Confirm \/ AfterChapter
    \/ PrintDone \/ Except \/ Finally

Spec == Init /\ [][Next]_vars

\* every wait of the program is bounded and the program is sequential:
\* a step that is enabled is eventually taken
FairSpec == Spec /\ WF_vars(Next)

(***************************************************************************)
(* The segmenter on its own: every document of the bounded set is parsed.  *)
(***************************************************************************)
InitParse ==
    /\ \E n \in 0..MaxNodes : \E ks \in [1..n -> Kinds] : \E ds \in DepthSeqs(n) :
          \E head \in BOOLEAN : \E body \in BOOLEAN :
              /\ Compatible(ks, ds)
              /\ n > 0 => body
              /\ doc = MkDoc(head, body, ks, ds)
    /\ args = NoArgs
    /\ environ = NoEnviron
    /\ chapters = <<>>
    /\ pc = "parse"
    /\ i = 0
    /\ driver = "none"
    /\ page = "none"
    /\ title_field = <<>>
    /\ content_field = <<>>
    /\ exc = "none"
    /\ trace = <<>>
    /\ exit_status = -1

NextParse == Parse

SpecParse == InitParse /\ [][NextParse]_vars

(***************************************************************************)
(* Properties.                                                             *)
(***************************************************************************)
Has(e, n) == \E p \in 1..Len(trace) : trace[p] = Ev(e, n)

HasEv(e) == \E p \in 1..Len(trace) : trace[p].ev = e

\* the chapter indices of the events e of the trace, in the order of the trace
IdxOf(e) ==
    LET evs == SelectSeq(trace, LAMBDA x : x.ev = e)
    IN  [p \in 1..Len(evs) |-> evs[p].i]

ChapterIdx == 0..(MaxNodes - 1)

\* C1: in a non-dry-run, once the confirmation wait of a chapter i that is
\* not the last has timed out and "failed to confirm" is reported, the run
\* goes on and the form of chapter i+1 is opened.
C1_ConfirmTimeoutContinues ==
    \A n \in ChapterIdx :
        (~args.dry_run /\ Has("print_failed_to_confirm", n) /\ n < Len(chapters) - 1)
            ~> Has("get_new_chapter", n + 1)

\* a run that reached Done and exit status 0 after a confirmation timeout
\* on a chapter that is not the last
C1_Witness ==
    /\ pc = "exited" /\ exit_status = 0 /\ HasEv("print_done")
    /\ \E n \in ChapterIdx :
          /\ n < Len(chapters) - 1
          /\ Has("print_failed_to_confirm", n)
          /\ Has("get_new_chapter", n + 1)

Range(a, b) == [k \in 1..(IF b >= a THEN b - a + 1 ELSE 0) |-> a + k - 1]

Min(a, b) == IF a <= b THEN a ELSE b

\* the events of the trace that open, fill or submit a chapter form
ChapterOps == {"get_new_chapter", "fill_title", "fill_content", "click_post", "wait_confirm"}

Aborted == pc \in {"except", "finally", "exited"} /\ ~HasEv("print_done")

\* C2: once the wait for the content field of chapter i has timed out, the
\* run is aborted: no field of chapter i is filled, chapter i is not
\* submitted, no later chapter is opened, filled or submitted, and the
\* process exits with status 1.
C2_NavigationTimeoutAborts ==
    \A n \in ChapterIdx :
        Has("TimeoutException", n) =>
            /\ Aborted
            /\ pc = "exited" => exit_status = 1
            /\ \A p \in 1..Len(trace) :
                  /\ trace[p].i = n =>
                        trace[p].ev \notin {"fill_title", "fill_content", "click_post"}
                  /\ trace[p].i > n => trace[p].ev \notin ChapterOps

\* the process has exited with status 1 after a navigation timeout on a
\* chapter that is neither the first nor the last
C2_Witness ==
    /\ pc = "exited" /\ exit_status = 1
    /\ \E n \in ChapterIdx :
          n >= 1 /\ n < Len(chapters) - 1 /\ Has("TimeoutException", n)

\* C3: a run that reaches Done has processed exactly the indices from
\* startIndex to n-1, once each and in ascending order, and has reported
\* the indices below startIndex as skipped without opening, filling or
\* submitting their forms.
C3_StartIndexProcessing ==
    HasEv("print_done") =>
        LET n == Len(chapters)
            processed == Range(args.start, n - 1)
        IN  /\ IdxOf("print_uploading") = processed
            /\ IdxOf("get_new_chapter") = processed
            /\ IdxOf("fill_title") = processed
            /\ IdxOf("fill_content") = processed
            /\ ~args.dry_run => IdxOf("click_post") = processed
            /\ IdxOf("print_skipping") = Range(0, Min(args.start, n) - 1)
            /\ \A p \in 1..Len(trace) :
                  trace[p].ev \in ChapterOps => trace[p].i >= args.start

\* Done is reached with startIndex 2 over four chapters
C3_Witness ==
    /\ HasEv("print_done")
    /\ args.start = 2
    /\ Len(chapters) = 4
    /\ IdxOf("get_new_chapter") = <<2, 3>>
    /\ IdxOf("print_skipping") = <<0, 1>>

\* Done is reached with a startIndex at or past the end of the sequence
C3_WitnessPastEnd ==
    HasEv("print_done") /\ args.start >= Len(chapters) /\ IdxOf("print_skipping") # <<>>

\* C4: in a dry run no chapter is ever submitted and no confirmation is
\* waited for, while every chapter the run has gone through had its form
\* opened and both fields filled.
C4_DryRunNeverSubmits ==
    args.dry_run =>
        /\ ~HasEv("click_post") /\ ~HasEv("wait_confirm")
        /\ ~HasEv("print_posted") /\ ~HasEv("print_failed_to_confirm")
        /\ \A n \in ChapterIdx :
              Has("print_would_submit", n) =>
                  /\ Has("get_new_chapter", n)
                  /\ Has("fill_title", n)
                  /\ Has("fill_content", n)
        /\ HasEv("print_done") =>
              \A n \in ChapterIdx :
                  (args.start <= n /\ n < Len(chapters)) => Has("print_would_submit", n)

\* a dry run over several chapters has reached Done, the last form filled
C4_Witness ==
    /\ args.dry_run /\ HasEv("print_done")
    /\ Len(chapters) >= 2 /\ args.start = 0
    /\ Has("fill_content", Len(chapters) - 1)
    /\ content_field = chapters[Len(chapters)].content

LoginFailed ==
    HasEv("RuntimeError_invalid_credentials") \/ HasEv("RuntimeError_unexpected_page_state")

\* C5: when the post-login marker is not seen the run is aborted with no
\* chapter form opened, filled or submitted, and every chapter operation of
\* any run comes after the successful login.
C5_LoginFailureAborts ==
    /\ LoginFailed =>
          /\ Aborted
          /\ pc = "exited" => exit_status = 1
          /\ \A p \in 1..Len(trace) : trace[p].ev \notin ChapterOps
    /\ \A p \in 1..Len(trace) :
          trace[p].ev \in ChapterOps =>
              \E q \in 1..(p - 1) : trace[q].ev = "print_login_successful"

\* the process has exited after a failed login, with chapters to upload
C5_Witness ==
    /\ pc = "exited" /\ exit_status = 1
    /\ HasEv("RuntimeError_invalid_credentials")
    /\ Len(chapters) >= 2 /\ args.start = 0

\* C10: in a non-dry-run the pause follows the processing of a chapter
\* exactly when another chapter comes after it, and precedes the opening of
\* that chapter's form; there is no pause after the last chapter, after a
\* skipped chapter or in a dry run.
C10_PauseBetweenChapters ==
    \A p \in 1..Len(trace) :
        LET n == trace[p].i
        IN  /\ trace[p].ev = "sleep" =>
                  /\ ~args.dry_run
                  /\ args.start <= n /\ n < Len(chapters) - 1
                  /\ p > 1
                  /\ trace[p - 1] \in {Ev("print_posted", n), Ev("print_failed_to_confirm", n)}
            /\ (trace[p].ev \in {"print_posted", "print_failed_to_confirm"} /\ p < Len(trace)) =>
                  IF n < Len(chapters) - 1
                  THEN trace[p + 1] = Ev("sleep", n)
                  ELSE trace[p + 1].ev # "sleep"
            /\ (trace[p].ev = "get_new_chapter" /\ n > args.start /\ ~args.dry_run) =>
                  \E q \in 1..(p - 1) :
                      /\ trace[q] = Ev("sleep", n - 1)
                      /\ \A r \in (q + 1)..(p - 1) : trace[r] = Ev("print_uploading", n)
            /\ trace[p].ev = "print_skipping" =>
                  (p < Len(trace) => trace[p + 1].ev # "sleep")

\* a non-dry-run with a skipped chapter has reached Done after pausing
\* between its chapters
C10_Witness ==
    /\ ~args.dry_run /\ HasEv("print_done")
    /\ args.start = 1 /\ Len(chapters) >= 3
    /\ Has("sleep", 1)
    /\ ~Has("sleep", Len(chapters) - 1)

(***************************************************************************)
(* Properties of the segmenter.                                            *)
(***************************************************************************)
Parsed == chapters # <<>>

HeadingAt(d, k) == d[k].name \in {"h1", "h2"}

HeadingPositions(d) == {k \in 1..Len(d) : HeadingAt(d, k)}

\* the rank of the heading at position k among the headings of d
Ord(d, k) == Cardinality({m \in HeadingPositions(d) : m <= k})

\* the position of the x-th heading of d
NthHeading(d, x) == CHOOSE k \in HeadingPositions(d) : Ord(d, k) = x

RECURSIVE Closes(_)
Closes(open) ==
    IF open = <<>> THEN <<>>
    ELSE <<CloseTag(open[Len(open)])>> \o Closes(SubSeq(open, 1, Len(open) - 1))

\* the markup of the whole body, written in one pass over the nodes in
\* document order with the stack of the open containers
RECURSIVE MarkupFrom(_, _, _)
MarkupFrom(d, k, open) ==
    IF k > Len(d) THEN Closes(open)
    ELSE LET nd == d[k]
             keep == SubSeq(open, 1, nd.depth)
         IN  Closes(SubSeq(open, nd.depth + 1, Len(open)))
             \o (IF nd.name = "#text" THEN Concat(nd.strs) \o MarkupFrom(d, k + 1, keep)
                 ELSE IF nd.name = "div"
                 THEN <<"<div>">> \o MarkupFrom(d, k + 1, Append(keep, "div"))
                 ELSE <<OpenTag(nd.name)>> \o InnerMarkup(nd) \o <<CloseTag(nd.name)>>
                      \o MarkupFrom(d, k + 1, keep))

Markup(d) == MarkupFrom(d, 1, <<>>)

\* the nodes after the heading at position h that belong to it: its later
\* siblings, with all they contain, up to its next sibling heading
BodyOf(d, h) ==
    {m \in (h + 1)..Len(d) :
        \A x \in (h + 1)..m :
            /\ d[x].depth >= d[h].depth
            /\ ~(d[x].depth = d[h].depth /\ HeadingAt(d, x))}

\* C6: no chapter's content contains the text of a later heading or of the
\* body of a later heading.
C6_NoLaterHeadingText ==
    Parsed =>
        \A h1 \in HeadingPositions(doc.nodes) : \A h2 \in HeadingPositions(doc.nodes) :
            h1 < h2 =>
                \A m \in {h2} \cup BodyOf(doc.nodes, h2) :
                    Letter[m] \notin Chars(chapters[Ord(doc.nodes, h1)].content)

\* C7: a document with N >= 1 headings yields N records, the k-th titled
\* with the trimmed text of the k-th heading.
C7_TitlesAreTrimmedHeadingText ==
    (Parsed /\ HeadingPositions(doc.nodes) # {}) =>
        /\ Len(chapters) = Cardinality(HeadingPositions(doc.nodes))
        /\ \A x \in 1..Len(chapters) :
              chapters[x].title = Strip(Concat(doc.nodes[NthHeading(doc.nodes, x)].strs))

\* the markup of the whole parsed document
SoupMarkup(s) ==
    IF ~s.head /\ ~s.body THEN <<>>
    ELSE <<"<html>">>
         \o (IF s.head THEN <<"<head>", "<title>", "t", "</title>", "</head>">> ELSE <<>>)
         \o (IF s.body THEN <<"<body>">> \o Markup(s.nodes) \o <<"</body>">> ELSE <<>>)
         \o <<"</html>">>

\* C8 as stated: a document without headings yields one record, titled
\* "Chapter 1", whose content is the markup of the children of the body,
\* nothing dropped or added.
C8_NoHeadingsBodyContent ==
    (Parsed /\ HeadingPositions(doc.nodes) = {}) =>
        chapters = << [title |-> <<"Chapter 1">>, content |-> Markup(doc.nodes)] >>

\* C8: a document without headings yields one record, titled "Chapter 1",
\* whose content is the markup of the children of the body or, when the
\* parsed document has no body element, the markup of the whole document.
C8_NoHeadingsWholeBody ==
    (Parsed /\ HeadingPositions(doc.nodes) = {}) =>
        chapters = << [title |-> <<"Chapter 1">>,
                       content |-> IF doc.body THEN Markup(doc.nodes) ELSE SoupMarkup(doc)] >>

\* a parsed document without headings: a bare string, then a container
\* with a paragraph and a string in it
C8_Witness ==
    /\ Parsed /\ HeadingPositions(doc.nodes) = {}
    /\ doc.head /\ doc.body
    /\ Len(doc.nodes) >= 4
    /\ doc.nodes[1].name = "#text"
    /\ doc.nodes[2].name = "div"
    /\ doc.nodes[3].name = "p" /\ doc.nodes[3].depth = 1
    /\ doc.nodes[4].name = "#text" /\ doc.nodes[4].depth = 1
    /\ chapters[1].content = <<"a", "<div>", "<p>", "c", "</p>", "d", "</div>">>

\* the heading at position k is directly followed by a sibling heading
FollowedByHeading(d, k) ==
    /\ HeadingAt(d, k)
    /\ k < Len(d)
    /\ d[k + 1].depth = d[k].depth
    /\ HeadingAt(d, k + 1)

\* C9: a heading directly followed by another heading yields a record with
\* empty content, emitted at the rank of the heading.
C9_AdjacentHeadingsEmptyContent ==
    Parsed =>
        \A k \in 1..Len(doc.nodes) :
            FollowedByHeading(doc.nodes, k) =>
                /\ Len(chapters) = Cardinality(HeadingPositions(doc.nodes))
                /\ chapters[Ord(doc.nodes, k)].content = <<>>
                /\ Chars(chapters[Ord(doc.nodes, k)].title) \subseteq {Letter[k]}

\* a parsed document with a heading between a chapter with content and a
\* heading that has content
C9_Witness ==
    /\ Parsed
    /\ Len(doc.nodes) = 4
    /\ doc.nodes[1].name = "h1" /\ doc.nodes[2].name = "h2" /\ doc.nodes[3].name = "h1" /\ doc.nodes[4].name = "p"
    /\ \A k \in 1..4 : doc.nodes[k].depth = 0
    /\ Len(chapters) = 3
    /\ chapters[2].content = <<>>
    /\ chapters[3].content = <<"<p>", "d", "</p>">>

(***************************************************************************)
(* Properties of the process as a whole.                                   *)
(***************************************************************************)
\* the events of the trace that record a raised exception
Exceptions ==
    {"TimeoutException", "NoSuchElementException", "WebDriverException_send_keys",
     "WebDriverException_click", "RuntimeError_invalid_credentials",
     "RuntimeError_unexpected_page_state", "traceback"}

Raised == \E p \in 1..Len(trace) : trace[p].ev \in Exceptions

\* C11: the exit status is 0 exactly when the run reached Done or the
\* chapter listing completed, and 1 when the input file is missing, when a
\* credential variable is absent or empty, or when an error was raised.
C11_ExitStatus ==
    pc = "exited" =>
        /\ exit_status \in {0, 1}
        /\ exit_status = 0 <=> (HasEv("print_done") \/ HasEv("print_list"))
        /\ ~args.html_exists => exit_status = 1
        /\ (~args.list_chapters
              /\ (Falsy(environ.AO3_USERNAME) \/ Falsy(environ.AO3_PASSWORD))) =>
                exit_status = 1
        /\ Raised => exit_status = 1

\* the process has exited with status 1 after an error raised while the
\* second chapter was uploaded
C11_Witness ==
    /\ pc = "exited" /\ exit_status = 1
    /\ Has("print_posted", 0)
    /\ Has("WebDriverException_click", 1)

Count(e) == Len(SelectSeq(trace, LAMBDA x : x.ev = e))

\* C12: once the browser session exists, every exit runs the teardown
\* exactly once: the session is quit in headless mode, and left open with
\* a notice otherwise.
C12_TeardownOnce ==
    /\ Count("quit") + Count("print_left_open") <= 1
    /\ driver = "none" => Count("quit") + Count("print_left_open") = 0
    /\ (pc = "exited" /\ driver # "none") =>
          IF args.headless
          THEN driver = "quit" /\ Count("quit") = 1 /\ Count("print_left_open") = 0
          ELSE driver = "open" /\ Count("quit") = 0 /\ Count("print_left_open") = 1

\* a headless run has exited after a failed login, its session quit
C12_Witness ==
    /\ pc = "exited" /\ args.headless /\ driver = "quit"
    /\ HasEv("RuntimeError_unexpected_page_state")
    /\ Count("quit") = 1

InputError ==
    ~args.html_exists \/ Falsy(environ.AO3_USERNAME) \/ Falsy(environ.AO3_PASSWORD)

\* C13: on an input error (file missing, or a credential variable missing
\* or empty) no browser session is created, the login is never started and
\* no chapter form is opened, filled or submitted.
C13_InputErrorNoWork ==
    /\ InputError =>
          /\ driver = "none"
          /\ pc \notin {"create_driver", "login"}
          /\ \A p \in 1..Len(trace) :
                trace[p].ev \notin ChapterOps \cup {"get_login", "click_login"}
    /\ (HasEv("print_error_file_not_found") \/ HasEv("print_error_credentials")) =>
          InputError /\ pc = "exited" /\ exit_status = 1

\* the process has exited on an empty password, the file parsed and the
\* user name set
C13_Witness ==
    /\ pc = "exited" /\ exit_status = 1
    /\ HasEv("print_error_credentials")
    /\ environ.AO3_USERNAME = "user" /\ environ.AO3_PASSWORD = ""
    /\ Len(chapters) >= 2

\* C14: every chapter record has a non-empty title, also when the visible
\* text of its heading is empty or only whitespace.
C14_TitlesNonEmpty ==
    Parsed => \A x \in 1..Len(chapters) : chapters[x].title # <<>>

\* the position of the event in the trace, 0 when it is not there
Pos(e, n) ==
    IF Has(e, n) THEN CHOOSE p \in 1..Len(trace) : trace[p] = Ev(e, n) ELSE 0

\* the event e2 of chapter n, when present, comes after its event e1
After(e1, e2, n) == Has(e2, n) => (Has(e1, n) /\ Pos(e1, n) < Pos(e2, n))

\* C15: nothing is retried: the login is attempted at most once and before
\* any chapter operation, each chapter goes at most once through open form,
\* fill title, fill content, then (non-dry-run only) submit and confirmation
\* wait, in that order, and a chapter is submitted only with both fields
\* holding its own title and content, filled after its form was loaded.
C15_EachStepOnceInOrder ==
    /\ Count("get_login") <= 1 /\ Count("click_login") <= 1
    /\ \A p \in 1..Len(trace) :
          /\ trace[p].ev \in ChapterOps =>
                /\ \A q \in 1..Len(trace) : trace[q] = trace[p] => q = p
                /\ Has("get_login", -1) /\ Pos("get_login", -1) < p
          /\ trace[p].ev \in {"click_post", "wait_confirm"} => ~args.dry_run
    /\ \A n \in ChapterIdx :
          /\ After("get_new_chapter", "fill_title", n)
          /\ After("fill_title", "fill_content", n)
          /\ After("fill_content", "click_post", n)
          /\ After("click_post", "wait_confirm", n)
    /\ pc = "confirm" =>
          /\ trace[Len(trace)] = Ev("click_post", i)
          /\ page = "new_chapter"
          /\ title_field = chapters[i + 1].title
          /\ content_field = chapters[i + 1].content

\* the second chapter has just been submitted, with content of its own
C15_Witness ==
    /\ pc = "confirm" /\ i = 1
    /\ Has("wait_confirm", 0)
    /\ content_field # <<>>
    /\ content_field # chapters[1].content

\* the loaded page holds the phrase "Invalid Username or password"
HasInvalidPhrase == page = "login_invalid"

\* C16: when the post-login marker is not seen, the login reports "invalid
\* credentials" if and only if the loaded page holds the invalid-credentials
\* phrase and "unexpected page state" otherwise; either way the error is
\* fatal and the login is not attempted again.
C16_LoginFailureReport ==
    /\ HasInvalidPhrase => LoginFailed
    /\ LoginFailed =>
          /\ HasEv("RuntimeError_invalid_credentials") <=> HasInvalidPhrase
          /\ HasEv("RuntimeError_unexpected_page_state") <=> ~HasInvalidPhrase
          /\ Count("RuntimeError_invalid_credentials")
                + Count("RuntimeError_unexpected_page_state") = 1
          /\ Count("get_login") = 1 /\ Count("click_login") = 1
          /\ ~HasEv("print_login_successful")
          /\ pc \in {"except", "finally", "exited"}
          /\ pc = "exited" => (exit_status = 1 /\ HasEv("print_error"))

\* the process has exited after a login that ended on a page without the
\* invalid-credentials phrase
C16_Witness ==
    /\ pc = "exited" /\ exit_status = 1
    /\ ~HasInvalidPhrase
    /\ HasEv("RuntimeError_unexpected_page_state")
    /\ ~HasEv("RuntimeError_invalid_credentials")
    /\ Count("get_login") = 1

\* the siblings of s up to the first heading, nodes of every kind
RECURSIVE UpToHeading(_, _)
UpToHeading(d, s) ==
    IF s = <<>> \/ HeadingAt(d, Head(s)) THEN <<>>
    ELSE <<Head(s)>> \o UpToHeading(d, Tail(s))

\* C17: the content of a chapter is the concatenation of the serialisations
\* of all the sibling nodes after its heading, elements and bare strings
\* alike, up to the next sibling heading, nothing omitted or inserted.
C17_ContentIsAllSiblings ==
    Parsed =>
        \A k \in HeadingPositions(doc.nodes) :
            LET sibs == UpToHeading(doc.nodes, NextSiblings(doc.nodes, k))
            IN  chapters[Ord(doc.nodes, k)].content
                    = Concat([x \in 1..Len(sibs) |-> str(doc.nodes, sibs[x])])

\* typing the content of chapter n as keystrokes has failed
ContentKeysFailed(n) == Has("fill_title", n) /\ Has("WebDriverException_send_keys", n)

\* C18: when typing the content as keystrokes fails, the content field is
\* set by direct value assignment, holds the whole content, and the chapter
\* goes on to the submit step: the run is not aborted.
C18_ContentFallback ==
    \A n \in ChapterIdx :
        ContentKeysFailed(n) =>
            /\ exc = "none"
            /\ ~HasEv("print_error")
            /\ i = n => content_field = chapters[n + 1].content

\* chapter n has gone through upload_chapter to its end
Processed(n) ==
    Has("print_would_submit", n) \/ Has("print_posted", n) \/ Has("print_failed_to_confirm", n)

\* the fatal errors of a run: login, navigation, fill and submit errors
FatalErrors == Exceptions \ {"traceback"}

CountIn(S) == Len(SelectSeq(trace, LAMBDA x : x.ev \in S))

RunDone == HasEv("print_done")

RunAborted == HasEv("print_error")

\* Done and Aborted exclude each other; Done comes after every index was
\* skipped or processed, Aborted after exactly one fatal error; a run that
\* has ended (its session was created) is in one of the two
TerminalStates ==
    /\ ~(RunDone /\ RunAborted)
    /\ RunDone =>
          /\ CountIn(Exceptions) = 0
          /\ \A n \in 0..(Len(chapters) - 1) : Has("print_skipping", n) \/ Processed(n)
    /\ RunAborted =>
          /\ CountIn(FatalErrors) = 1
          /\ trace[Pos("print_error", -1) - 1].ev \in FatalErrors
    /\ (pc = "exited" /\ driver # "none") => (RunDone \/ RunAborted)

\* C19: every run ends in exactly one of Done, reached only after every
\* chapter index was skipped or processed, and Aborted, reached only after
\* a fatal error; no run stays in a non-terminal state forever.
C19_TerminatesDoneOrAborted == []TerminalStates /\ <>(pc = "exited")

\* a dry run has ended Done after a skipped and a processed chapter
C19_Witness ==
    /\ pc = "exited" /\ RunDone /\ args.dry_run
    /\ Has("print_skipping", 0)
    /\ Processed(1)
    /\ Len(chapters) = 2

\* C20: confirmation timeouts do not show in the outcome: a run in which
\* submitted chapters stayed unconfirmed, and no fatal error occurred,
\* reaches Done, prints the completion message and exits with status 0,
\* like a run whose chapters were all confirmed.
C20_UnconfirmedStillDone ==
    (pc = "exited" /\ driver # "none" /\ CountIn(FatalErrors) = 0) =>
        /\ RunDone
        /\ exit_status = 0
        /\ \A n \in ChapterIdx :
              (args.start <= n /\ n < Len(chapters) /\ ~args.dry_run) =>
                  (Has("print_posted", n) \/ Has("print_failed_to_confirm", n))

\* a run of three chapters, none of them confirmed, has exited with
\* status 0
C20_Witness ==
    /\ pc = "exited" /\ exit_status = 0 /\ RunDone
    /\ Len(chapters) = 3 /\ args.start = 0
    /\ \A n \in 0..2 : Has("print_failed_to_confirm", n)
    /\ ~HasEv("print_posted")

====
